---- MODULE Spec2Model ----
(***************************************************************************)
(* Battery monitor firmware: the periodic sampling and append-log engine   *)
(* of src/main.cpp (loop, write_file, check_wifi_connection, connect_mqtt, *)
(* the publish functions) and the two earlier variants part_001, part_002. *)
(*                                                                         *)
(* Quantities: currents and voltages are integers in units of 1e-4 A / V,  *)
(* times are milliseconds, file contents are the sequence of strings that  *)
(* the successive file.print / file.println calls wrote.                   *)
(***************************************************************************)
EXTENDS Integers, Sequences, FiniteSets, TLC

(* ------------------------------ bounds --------------------------------- *)
\* accepted samples after which the model stops sampling
MaxSamples == 62
\* abnormal environment answers (bad clock read, failed open, reset, ...) per run
MaxFaults == 1
\* accepted samples and abnormal answers per run when the network is present
MaxLiveSamples == 3
MaxLiveFaults == 3
MaxWebSamples == 3
MaxRequests == 2
MaxAppends == 3
MaxReconnectMs == 5000
MaxGateSamples == 4
MaxGateWait == 3000

(* ------------------------- program constants --------------------------- *)
SAMPLES_PER_CYCLE == 60
LAST_INDEX == 59
SAMPLE_PERIOD == 1000
WIFI_RETRY_INTERVAL == 60000
WIFI_CONNECT_TIMEOUT == 10000
WIFI_POLL_DELAY == 500
SD_CHECK_INTERVAL == 10000
STATUS_INTERVAL == 60000
MIN_VALID_YEAR == 2000
MQTT_MAX_ATTEMPTS == 3
MQTT_RETRY_DELAY == 2000
PUBLISH_MAX_RETRIES == 3
PUBLISH_RETRY_DELAY == 100
VERIFY_EVERY == 15
REPORT_EVERY == 10
DTOSTRF_WIDTH == 7

(* --------------------------- environment sets -------------------------- *)
\* years an rtc.now() read may report: a plausible one and an implausible one
RtcYears == {2024, 1999}
\* raw ADS1115 conversion results the analog front-end delivers, in turn
Readings == <<118, 119, -1, 0, 9600, -32768, 47>>
\* wall-clock instants (ms after 2024-06-03 00:00:00) at which a run may start
StartTimes == {52500000, 86350000}
\* milliseconds the clock advances while the busy-wait finds the gate closed
PollDeltas == {500}

(* ------------------------------ helpers -------------------------------- *)
CRLF == "\r\n"
ARROW == " --> "
DELIM == ", "

Abs(a) == IF a < 0 THEN -a ELSE a

\* round(a / b), halves away from zero (b > 0)
RoundDiv(a, b) ==
  IF a >= 0 THEN (2 * a + b) \div (2 * b) ELSE -((2 * (-a) + b) \div (2 * b))

Digit(d) == <<"0", "1", "2", "3", "4", "5", "6", "7", "8", "9">>[d + 1]

RECURSIVE NatStr(_)
NatStr(n) == IF n < 10 THEN Digit(n) ELSE NatStr(n \div 10) \o Digit(n % 10)

RECURSIVE Spaces(_)
Spaces(n) == IF n <= 0 THEN "" ELSE " " \o Spaces(n - 1)

RECURSIVE Zeros(_)
Zeros(n) == IF n <= 0 THEN "" ELSE "0" \o Zeros(n - 1)

\* printf("%0<w>d") of a natural number
ZeroPad(n, w) == Zeros(w - Len(NatStr(n))) \o NatStr(n)

\* Two's-complement views of the millisecond counter.  The model checker's
\* integers end at 2^31 - 1, so the counters are modelled 30 bits wide: the
\* unsigned ones wrap at WORD, the signed ones run from -WORD/2 to WORD/2 - 1.
WORD == 2 ^ 30
\* unsigned long arithmetic
U32(a) == a % WORD
\* conversion to / arithmetic on an int
Int32(a) == ((a + WORD \div 2) % WORD) - WORD \div 2

(* ------------------------- data collection ----------------------------- *)
\* amps = results * 0.0078125 * (100 / 75), here in units of 1e-4 A
get_adc_data_in_A(results) == RoundDiv(results * 10000, 96)

\* volts = round((2 * 0.0002696 * results + 0.4) * 10) / 10, in units of 1e-4 V
get_adc_data_in_V(results) ==
  RoundDiv(RoundDiv(results * 5392, 1000) + 4000, 1000) * 1000

\* the raw result the converter delivers for the n-th accepted sample
AdcResult(n) == Readings[(n % Len(Readings)) + 1]

(* ------------------------------ clock ---------------------------------- *)
\* rtc.now(): the wall clock, with the year this read reports
RtcNow(ms, year) ==
  LET s == ms \div 1000
      sod == s % 86400
  IN [year |-> year, month |-> 6, day |-> 3 + (s \div 86400),
      hour |-> sod \div 3600, minute |-> (sod % 3600) \div 60, second |-> sod % 60]

(* ------------------------------ write_file ----------------------------- *)
\* dtostrf(data, 7, 3, dataStr): 3 decimals, right-justified in 7 columns
dtostrf(data) ==
  LET milli == RoundDiv(Abs(data), 10)
      body == (IF data < 0 THEN "-" ELSE "") \o NatStr(milli \div 1000) \o "."
                \o ZeroPad(milli % 1000, 3)
  IN Spaces(DTOSTRF_WIDTH - Len(body)) \o body

\* sprintf(filename, "%s%04d-%02d-%02d.txt", ...)
FileName(filnamn, time) ==
  filnamn \o ZeroPad(time.year, 4) \o "-" \o ZeroPad(time.month, 2) \o "-"
    \o ZeroPad(time.day, 2) \o ".txt"

\* sprintf(timestamp, "%02d:%02d:%02d", ...)
TimeStamp(time) ==
  ZeroPad(time.hour, 2) \o ":" \o ZeroPad(time.minute, 2) \o ":"
    \o ZeroPad(time.second, 2)

\* a writer that trusts every clock reading
ClockInvalidNever(time) == FALSE

\* if (time.year() < 2000) ... return
ClockInvalid(time) == time.year < MIN_VALID_YEAR

\* if (count == 0) { file.println(); file.print(timestamp); file.print(" --> "); }
HeaderChunks(cnt, time) ==
  IF cnt = 0 THEN <<CRLF, TimeStamp(time), ARROW>> ELSE <<>>

\* a writer that never ends the line
ValueChunksNoBreak(cnt, data) == <<dtostrf(data), DELIM>>

\* if (count < 59) { print(dataStr); print(", "); } else { print(dataStr); println(); }
ValueChunks(cnt, data) ==
  IF cnt < LAST_INDEX THEN <<dtostrf(data), DELIM>> ELSE <<dtostrf(data), CRLF>>

\* if (count == 0 || count == 59 || count % 15 == 0)
NeedsVerify(cnt) == cnt = 0 \/ cnt = LAST_INDEX \/ cnt % VERIFY_EVERY = 0

\* a writer that returns without closing
CloseFileLeak(isOpen) == isOpen

\* file.close(): the handle's state afterwards
CloseFile(isOpen) == FALSE

(* ------------------------------ messaging ------------------------------ *)
\* An effect: the operations performed, in order, and the milliseconds spent.
\* An operation is a pair <<kind, argument>>.
Nothing == [ops |-> <<>>, dt |-> 0]
\* a followed by b (each operand is bound once)
Then(a, b) ==
  CHOOSE r \in {[ops |-> x[1].ops \o x[2].ops, dt |-> x[1].dt + x[2].dt] :
                  x \in {<<a, b>>}} : TRUE
Op(kind, arg) == [ops |-> <<<<kind, arg>>>>, dt |-> 0]
Delay(ms) == [ops |-> <<>>, dt |-> ms]
When(cond, a) == IF cond THEN a ELSE Nothing

Min(a, b) == IF a < b THEN a ELSE b

\* a, n times over
RECURSIVE Repeat(_, _)
Repeat(n, a) == IF n <= 0 THEN Nothing ELSE Then(a, Repeat(n - 1, a))

\* retries counted by: while (!mqtt.publish(topic, buffer) && retries < 3) { ...; retries++; }
\* when the next `fails` sends fail
PublishRetries(fails) == Min(fails, PUBLISH_MAX_RETRIES)

\* the sends that loop makes: a failed send is followed by delay(100) and mqtt.loop()
\* while retries < 3
\* a loop that retries for ever
MayRetryAlways(retries) == TRUE

\* ... && retries < 3
MayRetry(retries) == retries < PUBLISH_MAX_RETRIES

RECURSIVE PublishLoop(_, _, _)
PublishLoop(topic, fails, retries) ==
  IF fails = 0 THEN Op("send_ok", topic)
  ELSE IF MayRetry(retries)
    THEN Then(Op("send_fail", topic),
         Then(Delay(PUBLISH_RETRY_DELAY),
         Then(Op("mqtt.loop", ""), PublishLoop(topic, fails - 1, retries + 1))))
    ELSE Op("send_fail", topic)

\* publish_log / publish_error: nothing unless mqtt.connected(); ends with mqtt.loop()
PublishTo(topic, session, fails) ==
  IF ~session THEN Nothing
  ELSE Then(Op("publish", topic),
       Then(PublishLoop(topic, fails, 0), Op("mqtt.loop", "")))

publish_log(session, fails) == PublishTo("battery/log", session, fails)
publish_error(session, fails) == PublishTo("battery/error", session, fails)

\* publish_data_point: the same message on the current and on the voltage topic;
\* `reported` is the outcome it prints (retries of the last loop only)
publish_data_point(session, failsCurrent, failsVoltage) ==
  IF ~session THEN [ops |-> <<>>, dt |-> 0, reported |-> "none"]
  ELSE LET e == Then(Op("publish", "battery/data/current"),
                Then(PublishLoop("battery/data/current", failsCurrent, 0),
                Then(Op("publish", "battery/data/voltage"),
                Then(PublishLoop("battery/data/voltage", failsVoltage, 0),
                     Op("mqtt.loop", "")))))
       IN [ops |-> e.ops, dt |-> e.dt,
           reported |-> IF PublishRetries(failsVoltage) >= PUBLISH_MAX_RETRIES
                        THEN "failed" ELSE "success"]

\* mqtt.publish(mqtt_topic_status, statusMsg, true): one send, its result unused;
\* it fails when the next `fails` sends fail
StatusOnline(fails) ==
  Then(Op("publish", "battery/status"),
       Op(IF fails > 0 THEN "send_fail" ELSE "send_ok", "battery/status"))

\* the attempts of: while (!mqtt.connected() && attempts < 3) { mqtt.connect(...) ... };
\* each mqtt.connect() carries the retained last will for the status topic
\* when the next `fails` connects fail
RECURSIVE ConnectLoop(_, _, _)
ConnectLoop(fails, attempts, pubFails) ==
  IF attempts >= MQTT_MAX_ATTEMPTS THEN Nothing
  ELSE IF fails = 0
    THEN Then(Op("will", "battery/status"),
         Then(Op("mqtt.connect", "ok"),
         Then(StatusOnline(pubFails),
              publish_log(TRUE, IF pubFails > 0 THEN pubFails - 1 ELSE 0))))
    ELSE Then(Op("will", "battery/status"),
         Then(Op("mqtt.connect", "fail"),
         Then(Delay(MQTT_RETRY_DELAY), ConnectLoop(fails - 1, attempts + 1, pubFails))))

\* a client that connects anew on every call
AlreadyConnectedNever(session) == FALSE

\* if (mqtt.connected()) return true;
AlreadyConnected(session) == session

\* connect_mqtt(): `fails` = how many of the next connects the broker refuses;
\* a connect made before mqtt.setServer() has no broker address and fails
connect_mqtt(wifiConnected, session, serverSet, fails, pubFails) ==
  IF ~wifiConnected THEN [ops |-> <<>>, dt |-> 0, session |-> session, tried |-> FALSE]
  ELSE IF AlreadyConnected(session)
    THEN [ops |-> <<>>, dt |-> 0, session |-> TRUE, tried |-> FALSE]
  ELSE LET f == IF serverSet THEN fails ELSE MQTT_MAX_ATTEMPTS
           e == Then(Op("connect_mqtt", ""), ConnectLoop(f, 0, pubFails))
       IN [ops |-> e.ops, dt |-> e.dt, session |-> f < MQTT_MAX_ATTEMPTS, tried |-> TRUE]

\* a wait that ends only on association
WaitingAlways(waited) == TRUE

\* ... && millis() - startAttempt < WIFI_CONNECT_TIMEOUT
Waiting(waited) == waited < WIFI_CONNECT_TIMEOUT

\* the delay(500) passes of: while (WiFi.status() != WL_CONNECTED && ...) delay(500);
\* when the association completes during the joinAfter-th pass
RECURSIVE JoinPolls(_, _)
JoinPolls(joinAfter, waited) ==
  IF joinAfter = 0 \/ ~Waiting(waited) THEN 0
  ELSE 1 + JoinPolls(joinAfter - 1, waited + WIFI_POLL_DELAY)

\* an association that does not complete within the timeout, and a prompt one
NeverJoins == WIFI_CONNECT_TIMEOUT \div WIFI_POLL_DELAY + 1
JoinsAtOnce == 1

\* check_wifi_connection(): `link` is WiFi.status() == WL_CONNECTED on entry, `joinAfter`
\* the number of 500 ms passes after which WiFi.begin() has associated
check_wifi_connection(link, joinAfter, session, serverSet, fails, pubFails) ==
  IF link THEN [ops |-> <<>>, dt |-> 0, session |-> session, link |-> TRUE,
                wifi_connected |-> TRUE, tried |-> FALSE]
  ELSE IF JoinPolls(joinAfter, 0) = joinAfter
    THEN LET c == connect_mqtt(TRUE, session, serverSet, fails, pubFails)
             e == Then(Op("WiFi.begin", "joined"),
                  Then(Repeat(joinAfter, Then(Delay(WIFI_POLL_DELAY), Op("wifi.poll", ""))),
                       c))
         IN [ops |-> e.ops, dt |-> e.dt, session |-> c.session, link |-> TRUE,
             wifi_connected |-> TRUE, tried |-> c.tried]
    ELSE LET e == Then(Op("WiFi.begin", "timeout"),
                       Repeat(JoinPolls(joinAfter, 0),
                              Then(Delay(WIFI_POLL_DELAY), Op("wifi.poll", ""))))
         IN [ops |-> e.ops, dt |-> e.dt, session |-> session, link |-> FALSE,
             wifi_connected |-> FALSE, tried |-> FALSE]

\* when connect_mqtt() last gave up: `at` if the call that ended at `at` tried and
\* left no session, -1 once a call tried and connected, else as before
GaveUpAt(before, c, at) ==
  IF ~c.tried THEN before ELSE IF c.session THEN -1 ELSE at

(* ------------------------------- state --------------------------------- *)
VARIABLES
  pc,                 \* where the control flow of setup() / loop() stands
  millis,             \* the millisecond counter since power-on
  rtc_ms,             \* the battery-backed clock, ms since 2024-06-03 00:00:00
  count,              \* int count: index of the next sample in the minute
  previous_time,      \* int previous_time
  time_now,           \* int time_now
  total_samples,      \* static uint32_t total_samples
  sd_initialized,     \* bool sd_initialized
  last_sd_check,      \* unsigned long last_sd_check
  last_status_report, \* static unsigned long last_status_report
  wifi_connected,     \* bool wifi_connected
  last_wifi_attempt,  \* unsigned long last_wifi_attempt
  file_isOpen,        \* SdFile file: whether the shared handle is open
  files,              \* the card: file name -> strings written, in order
  data_in_amps,       \* float data_in_amps of the sample being processed
  data_in_volts,      \* float data_in_volts of the sample being processed
  wifi_link,          \* WiFi.status() == WL_CONNECTED
  mqtt_session,       \* mqtt.connected()
  mqtt_server_set,    \* mqtt.setServer() has been called
  variant,            \* which program runs: "main", "part_001" or "part_002"
  \* history, for stating the properties
  samples,            \* accepted samples since the run began (all power cycles)
  faults,             \* abnormal environment answers so far
  window,             \* number of the minute window in progress
  logged,             \* file name -> <<window, index, chunk, value>> of each value written
  headers,            \* <<file name, window>> of each header written
  passed,             \* per metric: the window and the indices handed to write_file in it
  connect_failed_at,  \* millis() when connect_mqtt() last gave up after 3 refusals, else -1
  obs,                \* what has been observed of this power cycle (see NoObs)
  http,               \* the web server's task: the handler in progress, requests served
  ops,                \* operations performed by the last step, in order
  call                \* the last step: what ran, with which inputs and outcome

vars == <<pc, millis, rtc_ms, count, previous_time, time_now, total_samples,
          sd_initialized, last_sd_check, last_status_report, wifi_connected,
          last_wifi_attempt, file_isOpen, files, data_in_amps, data_in_volts,
          wifi_link, mqtt_session, mqtt_server_set, variant,
          samples, faults, window, logged, headers, passed, connect_failed_at,
          obs, http, ops, call>>

\* the program's globals
prog == <<count, previous_time, time_now, total_samples, sd_initialized,
          last_sd_check, last_status_report, wifi_connected, last_wifi_attempt,
          data_in_amps, data_in_volts, mqtt_server_set>>
\* the network as the environment has it
net == <<wifi_link, mqtt_session>>
\* the log history
hist == <<logged, headers, passed, connect_failed_at, obs>>
logs == <<logged, headers, passed>>

NoFiles == [n \in {} |-> <<>>]
\* nothing observed yet: the millis() of the last check_wifi_connection() call and of
\* the last accepted sample (-1: none), whether the top of loop() has run since that
\* sample, and the samples (by number) handed to publish_data_point
NoObs == [wifi_checked_at |-> -1, sample_at |-> -1, top_seen |-> FALSE, sent |-> {}]
NoCall == [fn |-> "none", prefix |-> "", name |-> "", index |-> 0, year |-> 0,
           opened |-> FALSE, wrote |-> <<>>]
Metrics == {"Amps ", "Volts "}
\* no request is being handled
NoRequest == [at |-> "idle", served |-> 0]

\* the content of file n, empty when it does not exist
Content(fs, n) == IF n \in DOMAIN fs THEN fs[n] ELSE <<>>
\* fs with file n holding c (created when absent)
Store(fs, n, c) == [m \in DOMAIN fs \cup {n} |-> IF m = n THEN c ELSE fs[m]]
Log(lg, n, e) == Store(lg, n, Append(Content(lg, n), e))

\* the globals as their initializers leave them (lines 124-141, 295-296)
Globals ==
  /\ count = 0 /\ previous_time = 0 /\ time_now = 0 /\ total_samples = 0
  /\ sd_initialized = FALSE /\ last_sd_check = 0 /\ last_status_report = 0
  /\ wifi_connected = FALSE /\ last_wifi_attempt = 0
  /\ data_in_amps = 0 /\ data_in_volts = 0 /\ mqtt_server_set = FALSE
  /\ file_isOpen = FALSE

Init ==
  /\ pc = "boot" /\ millis = 0 /\ rtc_ms \in StartTimes
  /\ Globals
  /\ files = NoFiles
  /\ wifi_link = FALSE /\ mqtt_session = FALSE
  /\ variant = "main"
  /\ samples = 0 /\ faults = 0 /\ window = 0
  /\ logged = NoFiles /\ headers = {}
  /\ passed = [p \in Metrics |-> [w |-> -1, idx |-> <<>>]]
  /\ connect_failed_at = -1 /\ obs = NoObs /\ http = NoRequest
  /\ ops = <<>> /\ call = NoCall

(* ------------------------- write_file (main.cpp) ----------------------- *)
RECURSIVE Prints(_)
\* one file.print / file.println per chunk
Prints(chunks) ==
  IF chunks = <<>> THEN Nothing
  ELSE Then(Op("print", Head(chunks)), Prints(Tail(chunks)))

\* file.open(filename, flags): refused by the card, or because the handle is open
OpenSucceeds(isOpen, cardOk) == cardOk /\ ~isOpen

\* the size verification after the append (lines 609-647)
VerifyFile(name, isOpen, verify, online, pubFails) ==
  IF verify = "missing"
    THEN [e |-> Then(Op("serial", "ERROR: File does not exist after writing!"),
                     When(online, publish_error(TRUE, pubFails))),
          isOpen |-> isOpen]
  ELSE IF verify = "ok" /\ OpenSucceeds(isOpen, TRUE)
    THEN [e |-> Then(Op("open", name), Then(Op("close", name),
                     When(online, publish_log(TRUE, pubFails)))),
          isOpen |-> CloseFile(TRUE)]
    ELSE [e |-> Op("open_fail", name), isOpen |-> isOpen]

\* write_file(data, count, filnamn) with the clock reading `time`, the card
\* answering the open with `cardOk` and the verification with `verify`
write_file(fs, isOpen, data, cnt, filnamn, time, cardOk, verify, online, pubFails) ==
  LET name == FileName(filnamn, time)
      same == [files |-> fs, opened |-> FALSE, wrote |-> <<>>, name |-> name,
               isOpen |-> isOpen]
  IN
  IF ClockInvalid(time)
    THEN [same EXCEPT !.name = ""] @@
         [e |-> Then(Op("serial", "ERROR: RTC time is invalid. Skipping data write."),
                     When(online, publish_error(TRUE, pubFails)))]
  ELSE IF ~OpenSucceeds(isOpen, cardOk)
    THEN same @@
         [e |-> Then(When(online /\ (cnt = 0 \/ cnt % VERIFY_EVERY = 0),
                          publish_log(TRUE, pubFails)),
                Then(Op("open_fail", name),
                Then(Op("serial", "Failed to open file"),
                     When(online, publish_error(TRUE, pubFails)))))]
  ELSE
    LET chunks == HeaderChunks(cnt, time) \o ValueChunks(cnt, data)
        handle == CloseFile(TRUE)
        v == IF NeedsVerify(cnt)
               THEN VerifyFile(name, handle, verify, online, pubFails)
               ELSE [e |-> Nothing, isOpen |-> handle]
    IN [files |-> Store(fs, name, Content(fs, name) \o chunks),
        opened |-> TRUE, wrote |-> chunks, name |-> name, isOpen |-> v.isOpen,
        e |-> Then(When(online /\ (cnt = 0 \/ cnt % VERIFY_EVERY = 0),
                        publish_log(TRUE, pubFails)),
              Then(Op("open", name),
              Then(Prints(HeaderChunks(cnt, time)),
              Then(When(online /\ cnt = 0, publish_log(TRUE, pubFails)),
              Then(Prints(ValueChunks(cnt, data)),
              Then(When(online /\ cnt >= LAST_INDEX, publish_log(TRUE, pubFails)),
              Then(IF handle THEN Nothing ELSE Op("close", name),
              Then(v.e,
                   When(online /\ cnt % REPORT_EVERY = 0 /\ cnt > 0,
                        publish_log(TRUE, pubFails))))))))))]

\* a writer that stops the program when the file does not open
AfterWriteHalt(opened, nxt) == IF opened THEN nxt ELSE "halted"

\* write_file returns to loop() on every path; loop() goes on with its next statement
AfterWrite(opened, nxt) == nxt

IsIn(x, sq) == \E k \in 1..Len(sq) : sq[k] = x

\* the step of loop() that calls write_file for one metric
WriteFile(filnamn, year, cardOk, verify, pubFails) ==
  /\ variant = "main"
  /\ pc = IF filnamn = "Amps " THEN "write_amps" ELSE "write_volts"
  /\ \E data \in {IF filnamn = "Amps " THEN data_in_amps ELSE data_in_volts} :
     \E r \in {write_file(files, file_isOpen, data, count, filnamn,
                          RtcNow(rtc_ms, year), cardOk, verify,
                          wifi_connected /\ mqtt_session, pubFails)} :
        /\ files' = r.files
        /\ file_isOpen' = r.isOpen
        /\ millis' = millis + r.e.dt
        /\ rtc_ms' = rtc_ms + r.e.dt
        /\ ops' = r.e.ops
        /\ logged' = IF r.opened THEN Log(logged, r.name, <<window, count, dtostrf(data), data>>)
                     ELSE logged
        /\ headers' = IF IsIn(ARROW, r.wrote) THEN headers \cup {<<r.name, window>>}
                      ELSE headers
        /\ call' = [fn |-> "write_file", prefix |-> filnamn, name |-> r.name,
                    index |-> count, year |-> year, opened |-> r.opened,
                    wrote |-> r.wrote]
  /\ passed' = [passed EXCEPT ![filnamn] =
                  IF @.w = window THEN [@ EXCEPT !.idx = Append(@, count)]
                  ELSE [w |-> window, idx |-> <<count>>]]
  /\ pc' = AfterWrite(call'.opened, IF filnamn = "Amps " THEN "write_volts" ELSE "net")
  /\ UNCHANGED <<http, prog, net, variant, samples, window, connect_failed_at, obs>>

(* ------------------------------ init_sd_card --------------------------- *)
\* init_sd_card(): sd.begin() answering `beginOk`, the SDTEST.TXT open `testOk`
init_sd_card(fs, beginOk, testOk, time, online, pubFails) ==
  LET say == When(online, publish_log(TRUE, pubFails))
      err == When(online, publish_error(TRUE, pubFails))
      stamp == ZeroPad(time.year, 4) \o "-" \o ZeroPad(time.month, 2) \o "-"
                 \o ZeroPad(time.day, 2) \o " " \o TimeStamp(time)
      fs2 == Store(fs, "SDTEST.TXT",
                   <<"SD card test file", CRLF, "Last initialization time:", CRLF,
                     stamp, CRLF>>)
      listed == Min(Cardinality(DOMAIN fs2), 5)
  IN
  IF ~beginOk
    THEN [sd_initialized |-> FALSE, files |-> fs,
          e |-> Then(say, Then(Op("sd.begin", "fail"), err))]
  ELSE IF ~testOk
    THEN [sd_initialized |-> FALSE, files |-> fs,
          e |-> Then(say, Then(Op("sd.begin", "ok"), Then(say, Then(say, err))))]
  ELSE [sd_initialized |-> TRUE, files |-> fs2,
        e |-> Then(say, Then(Op("sd.begin", "ok"), Then(say, Then(say,
              Then(Op("open", "SDTEST.TXT"), Then(Op("close", "SDTEST.TXT"),
              Then(say, Then(say, Then(say, Then(Repeat(listed, say), say))))))))))]

(* --------------------------------- setup ------------------------------- *)
\* ads.begin(), then rtc.begin() unless the ADC has already stopped the program
Begins(adsOk, rtcOk) ==
  <<<<"ads.begin", IF adsOk THEN "ok" ELSE "fail">>>>
    \o (IF adsOk THEN <<<<"rtc.begin", IF rtcOk THEN "ok" ELSE "fail">>>> ELSE <<>>)

\* a startup that goes on whatever the ADC and the clock answer
SetupHaltsNever(adsOk, rtcOk) == FALSE

\* if (!ads.begin()) { while (1) ... }   if (!rtc.begin()) { while (1) ... }
SetupHalts(adsOk, rtcOk) == ~adsOk \/ ~rtcOk

\* setup(): the ADC and the clock answer begin() with adsOk / rtcOk
Setup(adsOk, rtcOk, joinAfter, connFails, pubFails, beginOk, testOk, year) ==
  /\ variant = "main"
  /\ pc = "boot"
  /\ \E w \in {check_wifi_connection(wifi_link, joinAfter, mqtt_session, mqtt_server_set,
                                        connFails, pubFails)} :
     \E t1 \in {rtc_ms + w.dt} :
     \E sd \in {init_sd_card(files, beginOk, testOk, RtcNow(t1, year),
                             w.wifi_connected /\ w.session, pubFails)} :
     \E c \in {connect_mqtt(w.wifi_connected, w.session, TRUE, connFails, pubFails)} :
        IF SetupHalts(adsOk, rtcOk)
          THEN /\ pc' = "halted"
               /\ wifi_connected' = w.wifi_connected
               /\ last_wifi_attempt' = U32(millis)
               /\ wifi_link' = w.link /\ mqtt_session' = w.session
               /\ millis' = millis + w.dt /\ rtc_ms' = t1
               /\ ops' = w.ops \o Begins(adsOk, rtcOk)
                             \o <<<<"halt", IF adsOk THEN "rtc" ELSE "adc">>>>
               /\ connect_failed_at' = GaveUpAt(connect_failed_at, w, millis + w.dt)
               /\ UNCHANGED <<sd_initialized, files, mqtt_server_set>>
          ELSE /\ pc' = "top"
               /\ wifi_connected' = w.wifi_connected
               /\ last_wifi_attempt' = U32(millis)
               /\ sd_initialized' = sd.sd_initialized
               /\ files' = sd.files
               /\ mqtt_server_set' = TRUE
               /\ wifi_link' = w.link /\ mqtt_session' = c.session
               /\ millis' = millis + w.dt + sd.e.dt + c.dt
               /\ rtc_ms' = rtc_ms + w.dt + sd.e.dt + c.dt
               /\ ops' = w.ops \o Begins(adsOk, rtcOk) \o sd.e.ops
                             \o <<<<"mqtt.setServer", "">>>> \o c.ops
               /\ connect_failed_at' =
                    GaveUpAt(GaveUpAt(connect_failed_at, w, millis + w.dt), c,
                             millis + w.dt + sd.e.dt + c.dt)
  /\ obs' = [obs EXCEPT !.wifi_checked_at = millis]
  /\ call' = [NoCall EXCEPT !.fn = "setup"]
  /\ UNCHANGED <<http, count, previous_time, time_now, total_samples, last_sd_check,
                 last_status_report, data_in_amps, data_in_volts, file_isOpen,
                 variant, samples, window, logs>>

(* ---------------------------------- loop ------------------------------- *)
\* a gate that is always open
RetryDueAlways(ms, last) == TRUE

\* if (millis() - last_wifi_attempt > WIFI_RETRY_INTERVAL)
RetryDue(ms, last) == U32(ms - last) > WIFI_RETRY_INTERVAL

\* if (millis() - last_sd_check > 10000)
SdCheckDue(ms, last) == U32(ms - last) > SD_CHECK_INTERVAL

\* the part of loop() above the sampling loop (lines 304-371)
LoopTop(joinAfter, connFails, pubFails, rootOk, beginOk, testOk, year) ==
  /\ variant = "main"
  /\ pc = "top"
  /\ \E retry \in {RetryDue(millis, last_wifi_attempt)} :
     \E w \in {IF retry
                 THEN check_wifi_connection(wifi_link, joinAfter, mqtt_session,
                                            mqtt_server_set, connFails, pubFails)
                 ELSE [ops |-> <<>>, dt |-> 0, session |-> mqtt_session,
                       link |-> wifi_link, wifi_connected |-> wifi_connected,
                       tried |-> FALSE]} :
     \E m1 \in {millis + w.dt}, online \in {w.wifi_connected /\ w.session} :
     \E report \in {U32(m1 - last_status_report) > STATUS_INTERVAL} :
     \E st \in {When(report /\ online,
                      Then(publish_log(TRUE, pubFails), publish_log(TRUE, pubFails)))} :
     \E m2 \in {m1 + st.dt} :
     \E check \in {SdCheckDue(m2, last_sd_check)} :
     \E reinit \in {check /\ ~rootOk /\ sd_initialized} :
     \E sd \in {init_sd_card(files, beginOk, testOk,
                             RtcNow(rtc_ms + (m2 - millis), year), online, pubFails)} :
     \E sdE \in {IF ~check THEN Nothing
                 ELSE IF rootOk
                   THEN Then(Op("sd.check", "ok"),
                             When(~sd_initialized /\ online, publish_log(TRUE, pubFails)))
                 ELSE IF sd_initialized
                   THEN Then(Op("sd.check", "fail"),
                        Then(When(online, publish_error(TRUE, pubFails)), sd.e))
                 ELSE Op("sd.check", "fail")} :
        /\ wifi_connected' = w.wifi_connected
        /\ last_wifi_attempt' = IF retry THEN U32(millis) ELSE last_wifi_attempt
        /\ wifi_link' = w.link /\ mqtt_session' = w.session
        /\ connect_failed_at' = GaveUpAt(connect_failed_at, w, m1)
        /\ obs' = [obs EXCEPT !.wifi_checked_at = IF retry THEN millis ELSE @,
                              !.top_seen = TRUE]
        /\ last_status_report' = IF report THEN U32(m1) ELSE last_status_report
        /\ last_sd_check' = IF check THEN U32(m2) ELSE last_sd_check
        /\ sd_initialized' = IF ~check THEN sd_initialized
                             ELSE IF rootOk THEN TRUE
                             ELSE IF sd_initialized THEN sd.sd_initialized
                             ELSE FALSE
        /\ files' = IF reinit THEN sd.files ELSE files
        /\ millis' = m2 + sdE.dt
        /\ rtc_ms' = rtc_ms + (m2 + sdE.dt - millis)
        /\ ops' = (IF wifi_connected THEN <<<<"ElegantOTA.loop", "">>>> ELSE <<>>)
                    \o (IF retry THEN <<<<"check_wifi_connection", "">>>> ELSE <<>>)
                    \o w.ops \o st.ops \o sdE.ops
  /\ pc' = "gate"
  /\ call' = [NoCall EXCEPT !.fn = "loop_top"]
  /\ UNCHANGED <<http, count, previous_time, time_now, total_samples, data_in_amps,
                 data_in_volts, mqtt_server_set, file_isOpen, variant, samples,
                 window, logs>>

\* a gate that lets every iteration through
GateOpenAlways(ms, prev) == TRUE

\* time_now = millis(); if ((time_now - previous_time) >= 1000)
GateOpen(ms, prev) == Int32(Int32(U32(ms)) - prev) >= SAMPLE_PERIOD

\* time_now - previous_time leaves the range of an int: the subtraction of two
\* signed ints overflows, which the language leaves undefined
Overflows(ms, prev) ==
  LET d == Int32(U32(ms)) - prev
  IN d < -(WORD \div 2) \/ d >= WORD \div 2

\* what the comparison can yield: the wrapped difference compared with 1000, or,
\* on overflow, also the comparison a compiler derives from "no overflow happens"
GateOutcomes(ms, prev) ==
  IF Overflows(ms, prev)
    THEN {GateOpen(ms, prev), Int32(U32(ms)) - prev >= SAMPLE_PERIOD}
    ELSE {GateOpen(ms, prev)}

\* while (count < 60)
InCycle(cnt) == cnt < SAMPLES_PER_CYCLE

\* a counter that skips every other index
NextCountSkip(cnt) == cnt + 2

\* count++
NextCount(cnt) == cnt + 1

\* an iteration of the sampling loop that finds the gate closed; the clock then
\* advances by delta before the next iteration
Poll(delta) ==
  /\ variant = "main"
  /\ pc = "gate" /\ InCycle(count)
  /\ \E open \in GateOutcomes(millis, previous_time) : ~open
  /\ time_now' = Int32(U32(millis))
  /\ millis' = millis + delta
  /\ rtc_ms' = rtc_ms + delta
  /\ ops' = <<>>
  /\ call' = [NoCall EXCEPT !.fn = "poll"]
  /\ UNCHANGED <<http, pc, count, previous_time, total_samples, sd_initialized, last_sd_check,
                 last_status_report, wifi_connected, last_wifi_attempt, file_isOpen,
                 files, data_in_amps, data_in_volts, net, mqtt_server_set, variant,
                 samples, window, hist>>

\* an iteration that finds the gate open: take the sample (lines 376-409)
SampleBegin(pubFails) ==
  /\ variant = "main"
  /\ pc = "gate" /\ InCycle(count)
  /\ \E open \in GateOutcomes(millis, previous_time) : open
  /\ time_now' = Int32(U32(millis))
  /\ previous_time' = Int32(U32(millis))
  /\ data_in_amps' = get_adc_data_in_A(AdcResult(samples))
  /\ data_in_volts' = get_adc_data_in_V(22000 + AdcResult(samples + 1))
  /\ total_samples' = U32(total_samples + 1)
  /\ samples' = samples + 1
  /\ LET e == IF sd_initialized THEN Nothing
              ELSE Then(Op("serial", "Skipping data logging - SD card not available"),
                        When(wifi_connected /\ mqtt_session /\ count % REPORT_EVERY = 0,
                             publish_error(TRUE, pubFails)))
     IN /\ ops' = <<<<"sample", "">>>> \o e.ops
        /\ millis' = millis + e.dt
        /\ rtc_ms' = rtc_ms + e.dt
  /\ pc' = IF sd_initialized THEN "write_amps" ELSE "net"
  /\ obs' = [obs EXCEPT !.sample_at = millis, !.top_seen = FALSE]
  /\ call' = [NoCall EXCEPT !.fn = "sample", !.index = count]
  /\ UNCHANGED <<http, count, sd_initialized, last_sd_check, last_status_report,
                 wifi_connected, last_wifi_attempt, file_isOpen, files, net,
                 mqtt_server_set, variant, window, logs, connect_failed_at>>

\* a publisher that ignores the connection state
ShouldPublishAlways(wifiConnected, session) == TRUE

\* if (wifi_connected && mqtt.connected()) publish_data_point(...)
ShouldPublish(wifiConnected, session) == wifiConnected /\ session

\* the messaging part of the sample and count++ (lines 411-438); `drop` is the
\* broker session being lost while the sample is processed
NetStep(failsCurrent, failsVoltage, connFails, pubFails) ==
  /\ variant = "main"
  /\ pc = "net"
  /\ LET e == IF ShouldPublish(wifi_connected, mqtt_session)
                THEN LET p == publish_data_point(mqtt_session, failsCurrent, failsVoltage)
                     IN [ops |-> <<<<"publish_data_point", p.reported>>>> \o p.ops,
                         dt |-> p.dt, session |-> mqtt_session, tried |-> FALSE]
              ELSE IF wifi_connected /\ ~mqtt_session
                THEN LET c == connect_mqtt(wifi_connected, mqtt_session, mqtt_server_set,
                                           IF wifi_link THEN connFails
                                           ELSE MQTT_MAX_ATTEMPTS, pubFails)
                     IN [ops |-> c.ops, dt |-> c.dt,
                         session |-> c.session, tried |-> c.tried]
              ELSE [ops |-> <<>>, dt |-> 0, session |-> mqtt_session, tried |-> FALSE]
     IN \E r \in {e} :
        /\ mqtt_session' = r.session
        /\ connect_failed_at' = GaveUpAt(connect_failed_at, r, millis + r.dt)
        /\ obs' = [obs EXCEPT !.sent = IF ShouldPublish(wifi_connected, mqtt_session)
                                         THEN @ \cup {samples} ELSE @]
        /\ ops' = r.ops \o (IF r.session THEN <<<<"mqtt.loop", "">>>> ELSE <<>>)
        /\ millis' = millis + r.dt
        /\ rtc_ms' = rtc_ms + r.dt
  /\ count' = NextCount(count)
  /\ pc' = "gate"
  /\ call' = [NoCall EXCEPT !.fn = "net", !.index = count]
  /\ UNCHANGED <<http, previous_time, time_now, total_samples, sd_initialized, last_sd_check,
                 last_status_report, wifi_connected, last_wifi_attempt, file_isOpen,
                 files, data_in_amps, data_in_volts, wifi_link, mqtt_server_set,
                 variant, samples, window, logs>>

\* the end of loop() once the sampling loop is left (lines 442-458)
CycleEnd(pubFails) ==
  /\ variant = "main"
  /\ pc = "gate" /\ ~InCycle(count)
  /\ count' = 0
  /\ window' = window + 1
  /\ LET e == Then(Op("serial", "One minute cycle completed"),
                   When(wifi_connected /\ mqtt_session, publish_log(TRUE, pubFails)))
     IN /\ ops' = e.ops
        /\ millis' = millis + e.dt
        /\ rtc_ms' = rtc_ms + e.dt
  /\ pc' = "top"
  /\ call' = [NoCall EXCEPT !.fn = "cycle_end"]
  /\ UNCHANGED <<http, previous_time, time_now, total_samples, sd_initialized, last_sd_check,
                 last_status_report, wifi_connected, last_wifi_attempt, file_isOpen,
                 files, data_in_amps, data_in_volts, net, mqtt_server_set, variant,
                 samples, hist>>

(* ----------------------------- environment ----------------------------- *)
\* the board is reset (power loss, watchdog, firmware update) between two
\* iterations: RAM is lost, the card and the battery-backed clock are kept
Reset ==
  /\ pc = "gate"
  /\ pc' = "boot"
  /\ millis' = 0
  /\ count' = 0 /\ previous_time' = 0 /\ time_now' = 0 /\ total_samples' = 0
  /\ sd_initialized' = FALSE /\ last_sd_check' = 0 /\ last_status_report' = 0
  /\ wifi_connected' = FALSE /\ last_wifi_attempt' = 0
  /\ data_in_amps' = 0 /\ data_in_volts' = 0 /\ mqtt_server_set' = FALSE
  /\ file_isOpen' = FALSE
  /\ wifi_link' = FALSE /\ mqtt_session' = FALSE
  /\ window' = window + 1
  /\ ops' = <<>>
  /\ connect_failed_at' = -1 /\ obs' = NoObs
  /\ http' = [http EXCEPT !.at = "idle"]
  /\ call' = [NoCall EXCEPT !.fn = "reset"]
  /\ UNCHANGED <<rtc_ms, files, variant, samples, logs>>

\* the access point goes away: the link and with it the broker session are lost
LinkDrop ==
  /\ pc = "gate" /\ wifi_link
  /\ wifi_link' = FALSE /\ mqtt_session' = FALSE
  /\ ops' = <<>>
  /\ call' = [NoCall EXCEPT !.fn = "link_drop"]
  /\ UNCHANGED <<http, pc, millis, rtc_ms, prog, file_isOpen, files, variant, samples,
                 window, hist>>

\* the broker closes the session
BrokerDrop ==
  /\ pc = "gate" /\ mqtt_session
  /\ mqtt_session' = FALSE
  /\ ops' = <<>>
  /\ call' = [NoCall EXCEPT !.fn = "broker_drop"]
  /\ UNCHANGED <<http, pc, millis, rtc_ms, prog, file_isOpen, files, wifi_link, variant,
                 samples, window, hist>>

(* ---------------------------- the web server --------------------------- *)
\* The handlers registered by setup_web_server() run in the task of the async TCP
\* library, not in loop(): a handler that has opened its directory or file goes on
\* while loop() takes its steps, and no lock is taken on either side.
Routes == {"/getdata", "/download"}

\* what the handler of a route holds open on the card once it has started:
\* list_files() its SdFile dir, the download handler its SdFile dataFile
Holds(route) == IF route = "/getdata" THEN "dir" ELSE "dataFile"

\* a server that answers no request
ServingNever(state, link) == FALSE

\* server.begin() has run at the end of setup() and a client can reach the board
Serving(state, link) == state \notin {"boot", "halted"} /\ link

\* a request arrives: dir.open() in list_files(), dataFile.open() in /download
HttpBegin(route) ==
  /\ variant = "main"
  /\ Serving(pc, wifi_link)
  /\ http.at = "idle" /\ http.served < MaxRequests
  /\ route = "/download" => files # NoFiles
  /\ http' = [http EXCEPT !.at = Holds(route)]
  /\ ops' = <<>>
  /\ call' = [NoCall EXCEPT !.fn = "http_begin", !.name = route]
  /\ UNCHANGED <<pc, millis, rtc_ms, prog, net, file_isOpen, files, variant, samples,
                 window, hist>>

\* the handler has read its last entry or block: dir.close() / dataFile.close()
\* and request->send()
HttpEnd ==
  /\ variant = "main"
  /\ http.at # "idle"
  /\ http' = [at |-> "idle", served |-> http.served + 1]
  /\ ops' = <<>>
  /\ call' = [NoCall EXCEPT !.fn = "http_end"]
  /\ UNCHANGED <<pc, millis, rtc_ms, prog, net, file_isOpen, files, variant, samples,
                 window, hist>>

(* ------------------ the logging engine, network absent ------------------ *)
Cost(b) == IF b THEN 0 ELSE 1
VerifyAnswers == {"ok", "open_fail", "missing"}

Next ==
  \/ \E adsOk \in BOOLEAN, rtcOk \in BOOLEAN, beginOk \in BOOLEAN :
       /\ faults + Cost(adsOk) + Cost(rtcOk) + Cost(beginOk) <= MaxFaults
       /\ Setup(adsOk, rtcOk, NeverJoins, 0, 0, beginOk, TRUE, 2024)
       /\ faults' = faults + Cost(adsOk) + Cost(rtcOk) + Cost(beginOk)
  \/ \E rootOk \in BOOLEAN, beginOk \in BOOLEAN :
       /\ faults + Cost(rootOk) + Cost(beginOk) <= MaxFaults
       /\ LoopTop(NeverJoins, 0, 0, rootOk, beginOk, TRUE, 2024)
       /\ faults' = faults + Cost(rootOk) + Cost(beginOk)
  \/ \E delta \in PollDeltas : Poll(delta) /\ UNCHANGED faults
  \/ samples < MaxSamples /\ SampleBegin(0) /\ UNCHANGED faults
  \/ \E filnamn \in Metrics, year \in RtcYears, cardOk \in BOOLEAN,
        verify \in VerifyAnswers :
       /\ faults + Cost(year = 2024) + Cost(cardOk) + Cost(verify = "ok") <= MaxFaults
       /\ WriteFile(filnamn, year, cardOk, verify, 0)
       /\ faults' = faults + Cost(year = 2024) + Cost(cardOk) + Cost(verify = "ok")
  \/ NetStep(0, 0, 0, 0) /\ UNCHANGED faults
  \/ CycleEnd(0) /\ UNCHANGED faults
  \/ faults < MaxFaults /\ Reset /\ faults' = faults + 1

Spec == Init /\ [][Next]_vars

(* ------------- the logging engine when only resets go wrong ------------- *)
NextReset ==
  \/ Setup(TRUE, TRUE, NeverJoins, 0, 0, TRUE, TRUE, 2024) /\ UNCHANGED faults
  \/ LoopTop(NeverJoins, 0, 0, TRUE, TRUE, TRUE, 2024) /\ UNCHANGED faults
  \/ \E delta \in PollDeltas : Poll(delta) /\ UNCHANGED faults
  \/ samples < MaxSamples /\ SampleBegin(0) /\ UNCHANGED faults
  \/ \E filnamn \in Metrics : WriteFile(filnamn, 2024, TRUE, "ok", 0) /\ UNCHANGED faults
  \/ NetStep(0, 0, 0, 0) /\ UNCHANGED faults
  \/ CycleEnd(0) /\ UNCHANGED faults
  \/ faults < MaxFaults /\ Reset /\ faults' = faults + 1

ResetSpec == Init /\ [][NextReset]_vars

(* ------------------- the whole program, network present ----------------- *)
\* how many of the next connects / sends fail, and when the association completes
ConnectAnswers == {0, MQTT_MAX_ATTEMPTS}
PublishAnswers == {0, PUBLISH_MAX_RETRIES, PUBLISH_MAX_RETRIES + 2}
JoinAnswers == {JoinsAtOnce, NeverJoins - 1, NeverJoins}
CostN(n) == IF n = 0 THEN 0 ELSE 1

\* the statements of setup() and loop(), the environment answering as it likes
\* within the budget of abnormal answers
Program ==
  \/ \E adsOk \in BOOLEAN, rtcOk \in BOOLEAN, joinAfter \in JoinAnswers,
        beginOk \in BOOLEAN, connFails \in ConnectAnswers :
       LET c == Cost(adsOk) + Cost(rtcOk) + CostN(joinAfter - JoinsAtOnce) + Cost(beginOk)
                  + CostN(connFails)
       IN /\ faults + c <= MaxLiveFaults
          /\ Setup(adsOk, rtcOk, joinAfter, connFails, 0, beginOk, TRUE, 2024)
          /\ faults' = faults + c
  \/ \E rootOk \in BOOLEAN, beginOk \in BOOLEAN :
       LET c == Cost(rootOk) + Cost(beginOk)
       IN /\ faults + c <= MaxLiveFaults
          /\ LoopTop(JoinsAtOnce, 0, 0, rootOk, beginOk, TRUE, 2024)
          /\ faults' = faults + c
  \/ \E delta \in PollDeltas : Poll(delta) /\ UNCHANGED faults
  \/ samples < MaxLiveSamples /\ SampleBegin(0) /\ UNCHANGED faults
  \/ \E filnamn \in Metrics, year \in RtcYears, cardOk \in BOOLEAN,
        pubFails \in PublishAnswers :
       LET c == Cost(year = 2024) + Cost(cardOk) + CostN(pubFails)
       IN /\ faults + c <= MaxLiveFaults
          /\ WriteFile(filnamn, year, cardOk, "ok", pubFails)
          /\ faults' = faults + c
  \/ \E failsCurrent \in PublishAnswers, failsVoltage \in PublishAnswers,
        connFails \in ConnectAnswers, pubFails \in PublishAnswers :
       LET c == CostN(failsCurrent) + CostN(failsVoltage) + CostN(connFails)
                  + CostN(pubFails)
       IN /\ faults + c <= MaxLiveFaults
          /\ NetStep(failsCurrent, failsVoltage, connFails, pubFails)
          /\ faults' = faults + c

NextLive ==
  \/ Program
  \/ faults < MaxLiveFaults /\ LinkDrop /\ faults' = faults + 1
  \/ faults < MaxLiveFaults /\ BrokerDrop /\ faults' = faults + 1

\* millis() advances and every library call returns: the program takes its next
\* step whenever it has one
LiveSpec == Init /\ [][NextLive]_vars /\ WF_vars(Program)

(* ---------------- the program and the web server's task ---------------- *)
\* every library call succeeds; requests arrive whenever the server is up
NextWeb ==
  \/ Setup(TRUE, TRUE, JoinsAtOnce, 0, 0, TRUE, TRUE, 2024) /\ UNCHANGED faults
  \/ LoopTop(JoinsAtOnce, 0, 0, TRUE, TRUE, TRUE, 2024) /\ UNCHANGED faults
  \/ \E delta \in PollDeltas : Poll(delta) /\ UNCHANGED faults
  \/ samples < MaxWebSamples /\ SampleBegin(0) /\ UNCHANGED faults
  \/ \E filnamn \in Metrics : WriteFile(filnamn, 2024, TRUE, "ok", 0) /\ UNCHANGED faults
  \/ NetStep(0, 0, 0, 0) /\ UNCHANGED faults
  \/ \E route \in Routes : HttpBegin(route) /\ UNCHANGED faults
  \/ HttpEnd /\ UNCHANGED faults

WebSpec == Init /\ [][NextWeb]_vars

(* ---------------------- write_file as a function ----------------------- *)
\* readings handed to write_file, in units of 1e-4 A
AppendValues == {12340, 12350, -20, 0, -123456}

InitAppend ==
  /\ pc = "append" /\ millis = 0 /\ rtc_ms \in StartTimes
  /\ Globals
  /\ files = NoFiles
  /\ wifi_link = FALSE /\ mqtt_session = FALSE
  /\ variant = "main"
  /\ samples = 0 /\ faults = 0 /\ window = 0
  /\ logged = NoFiles /\ headers = {}
  /\ passed = [p \in Metrics |-> [w |-> -1, idx |-> <<>>]]
  /\ connect_failed_at = -1 /\ obs = NoObs /\ http = NoRequest
  /\ ops = <<>> /\ call = NoCall

\* write_file(data, count, "Amps ") on a card that works, one second after the
\* previous call, for count = 0, 1, 2, ...
AppendReading(data) ==
  /\ pc = "append" /\ count < MaxAppends
  /\ \E r \in {write_file(files, file_isOpen, data, count, "Amps ",
                          RtcNow(rtc_ms, 2024), TRUE, "ok", FALSE, 0)} :
        /\ files' = r.files
        /\ file_isOpen' = r.isOpen
        /\ ops' = r.e.ops
        /\ logged' = Log(logged, r.name, <<window, count, dtostrf(data), data>>)
        /\ headers' = IF IsIn(ARROW, r.wrote) THEN headers \cup {<<r.name, window>>}
                      ELSE headers
        /\ call' = [fn |-> "write_file", prefix |-> "Amps ", name |-> r.name,
                    index |-> count, year |-> 2024, opened |-> r.opened,
                    wrote |-> r.wrote]
  /\ count' = NextCount(count)
  /\ millis' = millis + SAMPLE_PERIOD
  /\ rtc_ms' = rtc_ms + SAMPLE_PERIOD
  /\ UNCHANGED <<pc, previous_time, time_now, total_samples, sd_initialized,
                 last_sd_check, last_status_report, wifi_connected, last_wifi_attempt,
                 data_in_amps, data_in_volts, mqtt_server_set, net, variant, samples,
                 faults, window, passed, connect_failed_at, obs, http>>

NextAppend == \E data \in AppendValues : AppendReading(data)

AppendSpec == InitAppend /\ [][NextAppend]_vars

(* ------------- connect_mqtt and check_wifi_connection alone ------------- *)
\* the connectivity states the program can be in after setup(): the session
\* needs the link, and the link is only seen up once wifi_connected is set
InitReconnect ==
  /\ pc = "reconnect" /\ millis = 0 /\ rtc_ms \in StartTimes
  /\ count = 0 /\ previous_time = 0 /\ time_now = 0 /\ total_samples = 0
  /\ sd_initialized = FALSE /\ last_sd_check = 0 /\ last_status_report = 0
  /\ last_wifi_attempt = 0 /\ data_in_amps = 0 /\ data_in_volts = 0
  /\ file_isOpen = FALSE
  /\ mqtt_server_set = TRUE
  /\ wifi_connected \in BOOLEAN /\ wifi_link \in BOOLEAN /\ mqtt_session \in BOOLEAN
  /\ wifi_link => wifi_connected
  /\ mqtt_session => wifi_link
  /\ files = NoFiles
  /\ variant = "main"
  /\ samples = 0 /\ faults = 0 /\ window = 0
  /\ logged = NoFiles /\ headers = {}
  /\ passed = [p \in Metrics |-> [w |-> -1, idx |-> <<>>]]
  /\ connect_failed_at = -1 /\ obs = NoObs /\ http = NoRequest
  /\ ops = <<>> /\ call = NoCall

\* a call of connect_mqtt(), the next one a second later
CallConnect(connFails, pubFails) ==
  /\ pc = "reconnect" /\ millis < MaxReconnectMs
  /\ \E c \in {connect_mqtt(wifi_connected, mqtt_session, mqtt_server_set,
                            IF wifi_link THEN connFails ELSE MQTT_MAX_ATTEMPTS,
                            pubFails)} :
        /\ mqtt_session' = c.session
        /\ ops' = c.ops
        /\ millis' = millis + c.dt + SAMPLE_PERIOD
        /\ rtc_ms' = rtc_ms + c.dt + SAMPLE_PERIOD
        /\ connect_failed_at' = GaveUpAt(connect_failed_at, c, millis + c.dt)
  /\ call' = [NoCall EXCEPT !.fn = "connect_mqtt"]
  /\ UNCHANGED <<pc, count, previous_time, time_now, total_samples, sd_initialized,
                 last_sd_check, last_status_report, wifi_connected, last_wifi_attempt,
                 data_in_amps, data_in_volts, mqtt_server_set, file_isOpen, files,
                 wifi_link, variant, samples, faults, window, logs, obs, http>>

\* a call of check_wifi_connection(), the next one a second later
CallCheckWifi(joinAfter, connFails, pubFails) ==
  /\ pc = "reconnect" /\ millis < MaxReconnectMs
  /\ \E w \in {check_wifi_connection(wifi_link, joinAfter, mqtt_session,
                                     mqtt_server_set, connFails, pubFails)} :
        /\ wifi_connected' = w.wifi_connected
        /\ wifi_link' = w.link /\ mqtt_session' = w.session
        /\ ops' = w.ops
        /\ millis' = millis + w.dt + SAMPLE_PERIOD
        /\ rtc_ms' = rtc_ms + w.dt + SAMPLE_PERIOD
        /\ connect_failed_at' = GaveUpAt(connect_failed_at, w, millis + w.dt)
  /\ last_wifi_attempt' = U32(millis)
  /\ obs' = [obs EXCEPT !.wifi_checked_at = millis]
  /\ call' = [NoCall EXCEPT !.fn = "check_wifi_connection"]
  /\ UNCHANGED <<pc, count, previous_time, time_now, total_samples, sd_initialized,
                 last_sd_check, last_status_report, data_in_amps, data_in_volts,
                 mqtt_server_set, file_isOpen, files, variant, samples, faults,
                 window, logs, http>>

NextReconnect ==
  \/ \E connFails \in ConnectAnswers, pubFails \in PublishAnswers :
       CallConnect(connFails, pubFails)
  \/ \E joinAfter \in JoinAnswers, connFails \in ConnectAnswers :
       CallCheckWifi(joinAfter, connFails, 0)

ReconnectSpec == InitReconnect /\ [][NextReconnect]_vars

(* ------------------- the sampling loop late in a run ------------------- *)
\* millis() shortly before it passes the largest int and shortly before it wraps
GateStarts == {WORD \div 2 - 1500, WORD - 1500}

\* inside while (count < 60), a sample just taken, no card, WiFi joined and the
\* broker not connected
InitGate ==
  /\ pc = "gate" /\ millis \in GateStarts /\ rtc_ms \in StartTimes
  /\ count = 0 /\ previous_time = Int32(U32(millis)) /\ time_now = previous_time
  /\ total_samples = 0
  /\ sd_initialized = FALSE /\ last_sd_check = U32(millis)
  /\ last_status_report = U32(millis)
  /\ wifi_connected = TRUE /\ last_wifi_attempt = U32(millis)
  /\ data_in_amps = 0 /\ data_in_volts = 0 /\ mqtt_server_set = TRUE
  /\ file_isOpen = FALSE
  /\ files = NoFiles
  /\ wifi_link = TRUE /\ mqtt_session = FALSE
  /\ variant = "main"
  /\ samples = 0 /\ faults = 0 /\ window = 0
  /\ logged = NoFiles /\ headers = {}
  /\ passed = [p \in Metrics |-> [w |-> -1, idx |-> <<>>]]
  /\ connect_failed_at = -1
  /\ obs = [NoObs EXCEPT !.sample_at = millis, !.wifi_checked_at = millis]
  /\ http = NoRequest
  /\ ops = <<>> /\ call = NoCall

NextGate ==
  \/ \E delta \in PollDeltas :
       millis - obs.sample_at < MaxGateWait /\ Poll(delta) /\ UNCHANGED faults
  \/ samples < MaxGateSamples /\ SampleBegin(0) /\ UNCHANGED faults
  \/ \E connFails \in ConnectAnswers : NetStep(0, 0, connFails, 0) /\ UNCHANGED faults

GateSpec == InitGate /\ [][NextGate]_vars

(* ------------------- the variants part_001 and part_002 ----------------- *)
\* Values are in units of 1e-2 here: these programs print two decimals.
\* part_001 get_adc_data(): results * 0.0078125 * 50 / 75 * 1000
v1_get_adc_data(results) == RoundDiv(results * 3125, 6)
\* part_002 get_adc_data_in_A(): results * 0.0078125 * (100 / 75)
v2_get_adc_data_in_A(results) == RoundDiv(results * 100, 96)
\* part_002 get_adc_data_in_V(): 2 * 0.0002696 * results
v2_get_adc_data_in_V(results) == RoundDiv(results * 5392, 100000)

\* file.print(float): two decimals, no padding
Print2(data) ==
  (IF data < 0 THEN "-" ELSE "") \o NatStr(Abs(data) \div 100) \o "."
    \o ZeroPad(Abs(data) % 100, 2)

\* date + ".txt" (part_001), filnamn + date + ".txt" (part_002)
v_FileName(filnamn, time) ==
  filnamn \o ZeroPad(time.year, 4) \o "-" \o ZeroPad(time.month, 2) \o "-"
    \o ZeroPad(time.day, 2) \o ".txt"

\* if (count == 0) { println(); print(time.timestamp(TIMESTAMP_TIME)); print(" --> "); }
v_HeaderChunks(cnt, time) ==
  IF cnt = 0 THEN <<CRLF, TimeStamp(time), ARROW>> ELSE <<>>

\* if (count < 59) { print(data); print(", "); }  if (count == 59) println();
v_ValueChunks(cnt, data) ==
  (IF cnt < LAST_INDEX THEN <<Print2(data), DELIM>> ELSE <<>>)
    \o (IF cnt = LAST_INDEX THEN <<CRLF>> ELSE <<>>)

\* write_file of part_001 / part_002: a failed open ends in sd.errorHalt()
v_write_file(fs, data, cnt, filnamn, time, cardOk) ==
  LET name == v_FileName(filnamn, time)
      chunks == v_HeaderChunks(cnt, time) \o v_ValueChunks(cnt, data)
  IN IF ~cardOk
       THEN [files |-> fs, opened |-> FALSE, halted |-> TRUE, name |-> name,
             wrote |-> <<>>,
             e |-> Then(Op("open_fail", name), Op("sd.errorHalt", "opening file for write failed"))]
       ELSE [files |-> Store(fs, name, Content(fs, name) \o chunks), opened |-> TRUE,
             halted |-> FALSE, name |-> name, wrote |-> chunks,
             e |-> Then(Op("open", name), Then(Prints(chunks), Op("close", name)))]

\* the metrics a variant logs and the pause that ends its iteration
v_Metrics == IF variant = "part_001" THEN <<"">> ELSE <<"Amps ", "Volts ">>
v_Delay == IF variant = "part_001" THEN 999 ELSE 980

\* setup() of part_001 / part_002; part_002 first waits for the WiFi link for ever
v_Setup(adsOk, rtcOk, beginOk, joinOk) ==
  /\ variant \in {"part_001", "part_002"}
  /\ pc = "boot"
  /\ pc' = IF adsOk /\ (rtcOk \/ variant = "part_001") /\ beginOk
              /\ (joinOk \/ variant = "part_001")
           THEN "gate" ELSE "halted"
  /\ wifi_link' = (variant = "part_002" /\ joinOk)
  /\ ops' = <<>>
  /\ call' = [NoCall EXCEPT !.fn = "setup"]
  /\ UNCHANGED <<http, millis, rtc_ms, prog, file_isOpen, files, mqtt_session, variant,
                 samples, window, hist>>

\* the log entry of a call
v_Logged(lg, r, cnt, data) ==
  IF r.opened THEN Log(lg, r.name, <<window, cnt, Print2(data)>>) ELSE lg
v_Headers(hd, r) ==
  IF IsIn(ARROW, r.wrote) THEN hd \cup {<<r.name, window>>} ELSE hd

\* one iteration of while (count < 60) in loop()
v_Sample(year, cardOk1, cardOk2) ==
  /\ variant \in {"part_001", "part_002"}
  /\ pc = "gate" /\ InCycle(count)
  /\ LET time == RtcNow(rtc_ms, year)
         d1 == IF variant = "part_001" THEN v1_get_adc_data(AdcResult(samples))
               ELSE v2_get_adc_data_in_A(AdcResult(samples))
         d2 == v2_get_adc_data_in_V(22000 + AdcResult(samples + 1))
         r1 == v_write_file(files, d1, count, v_Metrics[1], time, cardOk1)
         two == variant = "part_002" /\ ~r1.halted
         r2 == IF two THEN v_write_file(r1.files, d2, count, v_Metrics[2], time, cardOk2)
               ELSE [r1 EXCEPT !.e = Nothing, !.wrote = <<>>, !.opened = FALSE]
         halted == r1.halted \/ r2.halted
     IN /\ files' = r2.files
        /\ data_in_amps' = d1
        /\ data_in_volts' = IF variant = "part_002" THEN d2 ELSE data_in_volts
        /\ ops' = r1.e.ops \o r2.e.ops
        /\ logged' = v_Logged(v_Logged(logged, r1, count, d1), r2, count, d2)
        /\ headers' = v_Headers(v_Headers(headers, r1), r2)
        /\ pc' = IF halted THEN "halted" ELSE "gate"
        /\ count' = IF halted THEN count ELSE NextCount(count)
        /\ millis' = IF halted THEN millis ELSE millis + v_Delay
        /\ rtc_ms' = IF halted THEN rtc_ms ELSE rtc_ms + v_Delay
        /\ call' = [fn |-> "v_sample", prefix |-> "", name |-> r1.name, index |-> count,
                    year |-> year, opened |-> r1.opened /\ (~two \/ r2.opened),
                    wrote |-> r1.wrote \o r2.wrote]
  /\ samples' = samples + 1
  /\ UNCHANGED <<http, previous_time, time_now, total_samples, sd_initialized, last_sd_check,
                 last_status_report, wifi_connected, last_wifi_attempt, file_isOpen,
                 net, mqtt_server_set, variant, window, passed, connect_failed_at,
                 obs>>

\* loop() returns with count = 0 and is entered again
v_CycleEnd ==
  /\ variant \in {"part_001", "part_002"}
  /\ pc = "gate" /\ ~InCycle(count)
  /\ count' = 0
  /\ window' = window + 1
  /\ ops' = <<>>
  /\ call' = [NoCall EXCEPT !.fn = "cycle_end"]
  /\ UNCHANGED <<http, pc, millis, rtc_ms, previous_time, time_now, total_samples,
                 sd_initialized, last_sd_check, last_status_report, wifi_connected,
                 last_wifi_attempt, file_isOpen, files, data_in_amps, data_in_volts,
                 net, mqtt_server_set, variant, samples, hist>>

InitVariant ==
  /\ pc = "boot" /\ millis = 0 /\ rtc_ms \in StartTimes
  /\ Globals
  /\ files = NoFiles
  /\ wifi_link = FALSE /\ mqtt_session = FALSE
  /\ variant \in {"part_001", "part_002"}
  /\ samples = 0 /\ faults = 0 /\ window = 0
  /\ logged = NoFiles /\ headers = {}
  /\ passed = [p \in Metrics |-> [w |-> -1, idx |-> <<>>]]
  /\ connect_failed_at = -1 /\ obs = NoObs /\ http = NoRequest
  /\ ops = <<>> /\ call = NoCall

NextVariant ==
  \/ \E adsOk \in BOOLEAN, rtcOk \in BOOLEAN, beginOk \in BOOLEAN, joinOk \in BOOLEAN :
       /\ faults + Cost(adsOk) + Cost(rtcOk) + Cost(beginOk) + Cost(joinOk) <= MaxFaults
       /\ v_Setup(adsOk, rtcOk, beginOk, joinOk)
       /\ faults' = faults + Cost(adsOk) + Cost(rtcOk) + Cost(beginOk) + Cost(joinOk)
  \/ \E cardOk1 \in BOOLEAN, cardOk2 \in BOOLEAN :
       /\ samples < MaxSamples
       /\ faults + Cost(cardOk1) + Cost(cardOk2) <= MaxFaults
       /\ v_Sample(2024, cardOk1, cardOk2)
       /\ faults' = faults + Cost(cardOk1) + Cost(cardOk2)
  \/ v_CycleEnd /\ UNCHANGED faults

VariantSpec == InitVariant /\ [][NextVariant]_vars

(* ============================= properties ============================== *)
Last(sq) == sq[Len(sq)]
CountOps(kind) == Cardinality({k \in 1..Len(ops) : ops[k][1] = kind})
\* the values of window w that write_file calls which opened file n were handed
AppendedIn(n, w) == Cardinality({k \in 1..Len(logged[n]) : logged[n][k][1] = w})

\* C1 (as stated): the index returns to 0 exactly after 60 values have been
\* appended to the window's log line: when a cycle ends, every file written in
\* that window has received 60 values of it.
C1_ResetAfter60Appended ==
  call.fn = "cycle_end" =>
    \A n \in DOMAIN logged : AppendedIn(n, window - 1) \in {0, SAMPLES_PER_CYCLE}

\* C1 (amended): in each window the indices handed to write_file for a metric are
\* 0, 1, 2, ... in steps of exactly 1 and stay within 0..59, and the index returns
\* to 0 exactly after 60 accepted samples (60 write_file calls per metric when the
\* card is initialized), whether or not each call appended its value.
C1_IndexDiscipline ==
  /\ count \in 0..SAMPLES_PER_CYCLE
  /\ \A p \in Metrics :
       /\ Len(passed[p].idx) <= SAMPLES_PER_CYCLE
       /\ \A k \in 1..Len(passed[p].idx) : passed[p].idx[k] = k - 1
       /\ call.fn = "cycle_end" /\ passed[p].w = window - 1
            => Len(passed[p].idx) = SAMPLES_PER_CYCLE
  /\ call.fn = "write_file" => call.index = count /\ count \in 0..LAST_INDEX

\* a second window has begun after a complete first one, without any fault
C1_Witness ==
  /\ call.fn = "write_file" /\ call.index = 0 /\ window = 1 /\ faults = 0
  /\ Len(passed["Volts "].idx) = SAMPLES_PER_CYCLE

\* C2: no value of a window is written to a file without that window's header
\* having been written to that file first.
C2_HeaderBeforeValues ==
  \A n \in DOMAIN logged :
    \A k \in 1..Len(logged[n]) : <<n, logged[n][k][1]>> \in headers

\* --- reading a log file back ---
\* the positions of the separator in a chunk sequence, and the j-th of them
SepPos(sq, sep) == {k \in 1..Len(sq) : sq[k] = sep}
Nth(S, j) == CHOOSE p \in S : Cardinality({q \in S : q < p}) = j - 1

\* the pieces of a chunk sequence between the occurrences of the separator
Split(sq, sep) ==
  LET S == SepPos(sq, sep)
      n == Cardinality(S)
  IN [j \in 1..(n + 1) |->
        SubSeq(sq, IF j = 1 THEN 1 ELSE Nth(S, j - 1) + 1,
                   IF j = n + 1 THEN Len(sq) ELSE Nth(S, j) - 1)]

RECURSIVE Join(_)
Join(sq) == IF sq = <<>> THEN "" ELSE Head(sq) \o Join(Tail(sq))

RECURSIVE Group(_, _)
\* the blocks of a sequence of lines: maximal runs of non-blank lines
Group(lines, cur) ==
  IF lines = <<>> THEN (IF cur = <<>> THEN <<>> ELSE <<cur>>)
  ELSE IF Head(lines) = <<>>
    THEN (IF cur = <<>> THEN <<>> ELSE <<cur>>) \o Group(Tail(lines), <<>>)
    ELSE Group(Tail(lines),
               IF cur = <<>> THEN Head(lines) ELSE cur \o <<CRLF>> \o Head(lines))

\* what follows the first occurrence of the separator (nothing if there is none)
After(sq, sep) ==
  LET S == SepPos(sq, sep)
  IN IF S = {} THEN <<>> ELSE SubSeq(sq, Nth(S, 1) + 1, Len(sq))

\* a block split on " --> ", the remainder split on ", " (empty pieces dropped)
BlockValues(block) ==
  LET pieces == SelectSeq(Split(After(block, ARROW), DELIM), LAMBDA x : x /= <<>>)
  IN [k \in 1..Len(pieces) |-> Join(pieces[k])]

\* the file split into blocks on blank lines, each block into its values
ParseLog(content) ==
  LET blocks == Group(Split(content, CRLF), <<>>)
  IN [k \in 1..Len(blocks) |-> BlockValues(blocks[k])]

\* the values of the last non-blank line of the file
LastLineValues(content) ==
  LET lines == SelectSeq(Split(content, CRLF), LAMBDA x : x /= <<>>)
  IN IF lines = <<>> THEN <<>> ELSE BlockValues(Last(lines))

\* the values handed to the appending calls, one sequence per window, in order
ByWindow(lg) ==
  LET W == {lg[k][1] : k \in 1..Len(lg)}
  IN [j \in 1..Cardinality(W) |->
        LET sel == SelectSeq(lg, LAMBDA e : e[1] = Nth(W, j))
        IN [k \in 1..Len(sel) |-> sel[k][3]]]

\* C3: splitting a log file on blank lines, each block on " --> " and the rest on
\* ", " gives back the appended values (as written, 3 decimals), in the same count
\* and order, one block per window, also after a reset in the middle of a window.
C3_RoundTrip ==
  \A n \in DOMAIN logged : ParseLog(files[n]) = ByWindow(logged[n])

\* C4: when write_file is called with index 59 and the file opens, the file ends
\* with a line break on return; for every lower index it ends with ", ".
C4_LineEnd ==
  call.fn = "write_file" /\ call.opened =>
    Last(files[call.name]) = IF call.index = LAST_INDEX THEN CRLF ELSE DELIM

\* write_file has returned from an append at index 59 of a negative 8-character value
C4_Witness ==
  /\ call.fn = "write_file" /\ call.opened /\ call.index = LAST_INDEX
  /\ call.prefix = "Amps " /\ data_in_amps < -1000000

\* C5: in every variant a window completed without failures produces one log line
\* holding the 60 values v0..v59, the one sampled at index 59 included.
C5_SixtyValuesPerLine ==
  call.fn \in {"write_file", "v_sample"} /\ call.index = LAST_INDEX =>
    \A n \in DOMAIN logged :
      AppendedIn(n, window) = SAMPLES_PER_CYCLE =>
        LastLineValues(files[n]) = Last(ByWindow(logged[n]))

\* C6: when the clock read reports a year below 2000, write_file reports the error
\* and neither creates, opens nor modifies any file.
C6_InvalidClockWritesNothing ==
  [][call'.fn = "write_file" /\ call'.year < MIN_VALID_YEAR =>
       /\ files' = files /\ file_isOpen' = file_isOpen
       /\ \A k \in 1..Len(ops') : ops'[k][1] \notin {"open", "open_fail", "print", "close"}
       /\ ops'[1] = <<"serial", "ERROR: RTC time is invalid. Skipping data write.">>]_vars

\* write_file has returned from a call whose clock read reported 1999, index >= 1
C6_Witness ==
  call.fn = "write_file" /\ call.year < MIN_VALID_YEAR /\ call.index > 0

\* C7: when the open fails, write_file reinitializes the card and retries the open
\* exactly once.
C7_ReinitAndRetryOnce ==
  call.fn = "write_file" /\ ~call.opened /\ call.year >= MIN_VALID_YEAR =>
    CountOps("sd.begin") = 1 /\ CountOps("open") + CountOps("open_fail") = 2

\* C8: after every return from write_file the shared file handle is closed, and
\* every open the call made was followed by its close.
C8_HandleClosed ==
  /\ ~file_isOpen
  /\ call.fn = "write_file" => CountOps("open") = CountOps("close")

\* write_file has returned from an append followed by a successful verification
C8_Witness ==
  /\ call.fn = "write_file" /\ call.opened /\ call.index = VERIFY_EVERY
  /\ CountOps("open") = 2

HasOp(sq, kind) == \E k \in 1..Len(sq) : sq[k][1] = kind

\* C9: once setup() has completed, every accepted tick runs to completion and
\* another sample is eventually accepted, whatever storage, clock, WiFi and broker
\* failures occur.
C9_SamplingNeverHalts ==
  /\ \A n \in 0..(MaxLiveSamples - 1) :
       (pc \notin {"boot", "halted"} /\ samples = n) ~> (samples = n + 1)
  /\ (pc \in {"write_amps", "write_volts", "net"}) ~> (pc = "gate")

C9_Witness ==
  /\ samples = MaxLiveSamples /\ pc = "gate" /\ faults = MaxLiveFaults
  /\ sd_initialized /\ wifi_connected /\ ~mqtt_session
  /\ \E n \in DOMAIN logged : Len(logged[n]) < MaxLiveSamples

\* C10: after connect_mqtt() has given up (3 refused connects), no tick makes
\* another connect attempt before the retry interval has elapsed.
C10_NoConnectBeforeRetryInterval ==
  [][pc = "net" /\ connect_failed_at >= 0
       /\ millis - connect_failed_at < WIFI_RETRY_INTERVAL
     => ~HasOp(ops', "mqtt.connect")]_vars

\* C11: after setup(), two consecutive calls of check_wifi_connection() are more
\* than WIFI_RETRY_INTERVAL apart on the millis() clock.
C11_JoinAttemptsRateLimited ==
  [][obs.wifi_checked_at >= 0 /\ obs'.wifi_checked_at >= 0
       /\ obs'.wifi_checked_at # obs.wifi_checked_at
     => obs'.wifi_checked_at - obs.wifi_checked_at > WIFI_RETRY_INTERVAL]_vars

\* the top of loop() has called check_wifi_connection() again
C11_Witness ==
  /\ call.fn = "loop_top" /\ HasOp(ops, "check_wifi_connection")
  /\ obs.wifi_checked_at > WIFI_RETRY_INTERVAL /\ ~wifi_link

\* C12: the top of loop() (OTA handling, WiFi-retry gate, SD health check) runs
\* between any two consecutive accepted samples.
C12_TopBetweenSamples ==
  [][call'.fn = "sample" /\ obs.sample_at >= 0 => obs.top_seen]_vars

\* C13: two consecutive accepted samples are at least 1000 ms apart on the
\* millis() clock, also when the loop was held up for longer than the period.
C13_NoCatchUp ==
  [][call'.fn = "sample" /\ obs.sample_at >= 0
     => obs'.sample_at - obs.sample_at >= SAMPLE_PERIOD]_vars

\* a sample accepted at the very instant a broker reconnect of 6 s gave up
C13_Witness ==
  /\ call.fn = "sample" /\ samples >= 2 /\ obs.sample_at = connect_failed_at
  /\ samples < MaxLiveSamples

\* C14: no accepted tick takes its publish or broker-reconnect decision with
\* wifi_connected true while WiFi.status() is not WL_CONNECTED.
C14_TrackedStateFollowsLink ==
  call.fn = "net" /\ (HasOp(ops, "publish_data_point") \/ HasOp(ops, "connect_mqtt"))
    => wifi_link

DataTopics == {"battery/data/current", "battery/data/voltage"}
\* some send of a data-point message is among the operations
HasDataSend(sq) ==
  \E k \in 1..Len(sq) : sq[k][1] \in {"send_ok", "send_fail"} /\ sq[k][2] \in DataTopics

\* C15: a data point is sent only on its own tick and only if wifi_connected is true
\* and the broker session is up at that tick; otherwise nothing is sent for that
\* sample, then or later.
C15_PublishOnlyWhenConnected ==
  [][/\ HasOp(ops', "publish_data_point") \/ HasDataSend(ops')
          => pc = "net" /\ wifi_connected /\ mqtt_session
     /\ call'.fn = "net" /\ ~(wifi_connected /\ mqtt_session)
          => ~HasDataSend(ops') /\ samples \notin obs'.sent
     /\ obs'.sent \ obs.sent \subseteq {samples}]_vars

\* a sample is published after the previous one was skipped for want of a session
C15_Witness ==
  /\ call.fn = "net" /\ HasDataSend(ops) /\ samples >= 2
  /\ samples \in obs.sent /\ (samples - 1) \notin obs.sent

SendKinds == {"send_ok", "send_fail"}
\* the sends of the last step on topic t, in order
SendsOf(t) == SelectSeq(ops, LAMBDA o : o[1] \in SendKinds /\ o[2] = t)

\* C16: in a tick with the broker connected, a data topic whose first 3 sends failed
\* is abandoned (no further send of it in that tick) and a failure is reported.
C16_AbandonAfterThreeFailures ==
  call.fn = "net" /\ HasOp(ops, "publish_data_point") =>
    \A t \in DataTopics :
      Len(SendsOf(t)) >= PUBLISH_MAX_RETRIES
        /\ (\A k \in 1..PUBLISH_MAX_RETRIES : SendsOf(t)[k][1] = "send_fail")
      => /\ Len(SendsOf(t)) = PUBLISH_MAX_RETRIES
         /\ ops[1] = <<"publish_data_point", "failed">>

\* the operations of the given kinds among the first k of the last step that no
\* later `marker` among those k separates from the k-th
SinceMarker(k, marker, kinds) ==
  Cardinality({j \in 1..k : ops[j][1] \in kinds
                             /\ \A i \in j..k : ops[i][1] # marker})

\* C17: the WiFi join wait ends on association or once WIFI_CONNECT_TIMEOUT has
\* elapsed, each connect_mqtt() makes at most 3 connect attempts, and each publish
\* loop makes at most 4 sends.
C17_WaitsAreBounded ==
  /\ CountOps("wifi.poll") * WIFI_POLL_DELAY <= WIFI_CONNECT_TIMEOUT
  /\ IsIn(<<"WiFi.begin", "timeout">>, ops)
       => CountOps("wifi.poll") * WIFI_POLL_DELAY = WIFI_CONNECT_TIMEOUT
  /\ \A k \in 1..Len(ops) :
       /\ SinceMarker(k, "connect_mqtt", {"mqtt.connect"}) <= MQTT_MAX_ATTEMPTS
       /\ SinceMarker(k, "publish", SendKinds) <= PUBLISH_MAX_RETRIES + 1

\* a tick in which every send of a data topic failed
C17_Witness ==
  /\ call.fn = "net"
  /\ Len(SendsOf("battery/data/voltage")) = PUBLISH_MAX_RETRIES + 1
  /\ \A k \in 1..Len(SendsOf("battery/data/voltage")) :
       SendsOf("battery/data/voltage")[k][1] = "send_fail"

\* the operations of the last step that go to the card
SdKinds == {"open", "open_fail", "print", "close", "sd.begin", "sd.check"}
OnSd(sq) == \E k \in 1..Len(sq) : sq[k][1] \in SdKinds

\* C18: the card is never accessed concurrently: loop() performs no card operation
\* (write_file, init_sd_card, the periodic check) while a request handler of the web
\* server is between the open and the close of its directory or file
C18_NoConcurrentSdAccess ==
  call.fn \in {"write_file", "loop_top"} /\ OnSd(ops) => http.at = "idle"

BeginFailed(sq) == IsIn(<<"ads.begin", "fail">>, sq) \/ IsIn(<<"rtc.begin", "fail">>, sq)

\* C19: setup() stops for good exactly when ads.begin() or rtc.begin() fails, and
\* then no sample is ever taken or logged; a setup() that meets a failing
\* sd.begin(), a WiFi timeout or a refusing broker completes and sampling begins
C19_OnlyAdcOrRtcHaltStartup ==
  /\ [](call.fn = "setup" => (pc = "halted" <=> BeginFailed(ops)))
  /\ [](pc = "halted" => samples = 0 /\ logged = NoFiles /\ files = NoFiles
                          /\ [](pc = "halted"))
  /\ (call.fn = "setup" /\ ~BeginFailed(ops)) ~> (samples >= 1)

\* setup() has completed although the card did not start and the broker refused
C19_Witness ==
  /\ call.fn = "setup" /\ pc = "top"
  /\ IsIn(<<"sd.begin", "fail">>, ops) /\ IsIn(<<"WiFi.begin", "joined">>, ops)
  /\ HasOp(ops, "connect_mqtt") /\ ~mqtt_session /\ ~sd_initialized

\* the readings appended to file n so far, in order
ValuesIn(n) == [k \in 1..Len(Content(logged, n)) |-> logged[n][k][4]]

\* C20: appending 1.234, 1.235 and -0.002 at indices 0, 1, 2 from 14:35:00 on
\* 2024-06-03 leaves "Amps 2024-06-03.txt" holding exactly a line break and
\* `14:35:00 --> 1.234, 1.235, -0.002, `, the values set apart by ", " alone
C20_ExactAmpsLine ==
  /\ pc = "append" /\ rtc_ms = 52500000 + MaxAppends * SAMPLE_PERIOD
  /\ ValuesIn("Amps 2024-06-03.txt") = <<12340, 12350, -20>>
  => Join(files["Amps 2024-06-03.txt"]) = CRLF \o "14:35:00 --> 1.234, 1.235, -0.002, "

\* the network part of setup() when the access point answers on the first pass of
\* the wait and the broker accepts: the top of loop() is first reached this many
\* ms after power-on
PromptNetwork == check_wifi_connection(FALSE, JoinsAtOnce, FALSE, FALSE, 0, 0)
FirstPass == call'.fn = "loop_top" /\ obs.sample_at = -1 /\ ~obs.top_seen

\* C21: logging does not depend on connectivity: write_file is called for a sample
\* exactly when sd_initialized holds, and sd_initialized changes in the first pass
\* of loop() only if it also does in the run with the same card and a prompt
\* network, so that both runs make the same appends
C21_LoggingIndependentOfConnectivity ==
  [][/\ call'.fn = "sample" => (pc' = "write_amps" <=> sd_initialized)
     /\ FirstPass /\ sd_initialized' # sd_initialized
          => SdCheckDue(PromptNetwork.dt, 0)]_vars

\* C22: every successful mqtt.connect() carries the retained last will of the
\* status topic and is followed at once, before anything else is sent on the new
\* session, by the delivery of the retained "online" message on that topic
C22_WillAndOnlineOnConnect ==
  \A k \in 1..Len(ops) :
    ops[k] = <<"mqtt.connect", "ok">> =>
      /\ k > 1 /\ ops[k - 1] = <<"will", "battery/status">>
      /\ k + 2 <= Len(ops) /\ ops[k + 2] = <<"send_ok", "battery/status">>
      /\ \A j \in 1..(k + 1) : ~(ops[j][1] \in SendKinds /\ ops[j][2] \in DataTopics)

\* the files that hold a value of minute window w
FilesOf(w) == {n \in DOMAIN logged : \E k \in 1..Len(logged[n]) : logged[n][k][1] = w}

\* C23: the values of one minute window go to a single file per metric, and so to
\* a single line, also when the date reported by the clock changes meanwhile
C23_WindowInOneFile ==
  \A w \in 0..window : Cardinality(FilesOf(w)) <= Cardinality(Metrics)

\* the message of topic t was delivered by one of the sends of the last step
Delivered(t) == IsIn(<<"send_ok", t>>, ops)

\* C24: publish_data_point reports failure exactly when the message of at least
\* one of its two topics was never delivered, and success exactly when both were
C24_ReportMatchesDelivery ==
  call.fn = "net" /\ HasOp(ops, "publish_data_point") =>
    /\ ops[1][2] \in {"failed", "success"}
    /\ ops[1][2] = "failed" <=> \E t \in DataTopics : ~Delivered(t)
    /\ ops[1][2] = "success" <=> \A t \in DataTopics : Delivered(t)

\* C25: connect_mqtt() called with the session up makes no connect attempt and
\* publishes nothing, check_wifi_connection() called with the link up starts no
\* join, and either call, however often repeated, leaves wifi_connected and the
\* session as they were
C25_ReconnectIdempotent ==
  [][/\ call'.fn = "connect_mqtt" /\ wifi_connected /\ mqtt_session
          => ops' = <<>> /\ wifi_connected' /\ mqtt_session' /\ wifi_link'
     /\ call'.fn = "check_wifi_connection" /\ wifi_link
          => /\ ops' = <<>>
             /\ wifi_connected' = wifi_connected /\ mqtt_session' = mqtt_session
             /\ wifi_link']_vars

\* both calls have been repeated on a connected board
C25_Witness ==
  /\ pc = "reconnect" /\ millis >= 2 * SAMPLE_PERIOD /\ ops = <<>>
  /\ call.fn \in {"connect_mqtt", "check_wifi_connection"}
  /\ wifi_connected /\ wifi_link /\ mqtt_session

\* C26: in part_001 and part_002 a log file that does not open costs only the
\* sample at hand: the sampling loop goes on and the index advances
C26_VariantOpenFailureDropsOneSample ==
  call.fn = "v_sample" /\ HasOp(ops, "open_fail") =>
    pc = "gate" /\ count = call.index + 1

NetKinds == {"publish", "send_ok", "send_fail", "mqtt.loop"}
\* the file opened by the last step is still open at its k-th operation
OpenAt(k) ==
  \E i \in 1..k : ops[i][1] = "open" /\ \A j \in i..k : ops[j][1] # "close"

\* C27: write_file talks to the broker only while its file is closed: between
\* file.open() and file.close() there is no publish, retry or mqtt.loop(), at
\* every index
C27_NoNetworkWhileFileOpen ==
  call.fn = "write_file" =>
    \A k \in 1..Len(ops) : ops[k][1] \in NetKinds => ~OpenAt(k)

\* C28: in setup() no mqtt.connect() is made before mqtt.setServer() has given
\* the client its broker address, also when the first join succeeds
C28_ServerSetBeforeConnect ==
  call.fn = "setup" =>
    \A k \in 1..Len(ops) :
      ops[k][1] = "mqtt.connect" => \E j \in 1..(k - 1) : ops[j][1] = "mqtt.setServer"

\* C29: whenever the periodic check at the top of loop() finds the card unusable
\* it calls init_sd_card() again, also when sd_initialized was already false
C29_FailedCheckReinitializes ==
  call.fn = "loop_top" /\ IsIn(<<"sd.check", "fail">>, ops) => HasOp(ops, "sd.begin")

====
